---- MODULE Spec2Model ----
(***************************************************************************)
(* id-kit: structured identifier generation and validation.                *)
(* Strings are modelled as sequences of one-character strings.             *)
(***************************************************************************)
EXTENDS Integers, Sequences, FiniteSets, TLC

VARIABLES opts, tape, pc, i, built, drawn, result, input, vres, vphase, orig, fpos

vars == <<opts, tape, pc, i, built, drawn, result, input, vres, vphase, orig, fpos>>

(***************************************************************************)
(* Bounds of the model.                                                    *)
(***************************************************************************)
\* rng() returns k / NumRng for k in 0 .. NumRng-1, always inside [0,1)
NumRng == 2
\* longest pattern text (before trimming)
MaxPatLen == 3
\* longest fixed-length identifier that is generated
MaxTotal == 3
\* largest groups / groupSize option
MaxGroups == 2
\* longest string handed to validateId directly
MaxInLen == 2
\* longest body handed to a checksum function directly
MaxBodyLen == 3
\* longest pattern and longest total of two concurrent generateId calls
MaxPairLen == 2
MaxAbsGroup == 2
MaxFmtLen == 4

(***************************************************************************)
(* Characters.                                                             *)
(***************************************************************************)
\* the printable ASCII characters, code 32 first (code 96 is written "grave")
Ascii ==
  <<" ", "!", "\"", "#", "$", "%", "&", "'", "(", ")", "*", "+", ",", "-", ".", "/",
    "0", "1", "2", "3", "4", "5", "6", "7", "8", "9", ":", ";", "<", "=", ">", "?",
    "@", "A", "B", "C", "D", "E", "F", "G", "H", "I", "J", "K", "L", "M", "N", "O",
    "P", "Q", "R", "S", "T", "U", "V", "W", "X", "Y", "Z", "[", "\\", "]", "^", "_",
    "grave", "a", "b", "c", "d", "e", "f", "g", "h", "i", "j", "k", "l", "m", "n", "o",
    "p", "q", "r", "s", "t", "u", "v", "w", "x", "y", "z", "{", "|", "}", "~">>

\* String.prototype.indexOf for a one-character needle, 0-based, -1 when absent
IndexOf(table, ch) ==
  LET hits == {k \in 1..Len(table) : table[k] = ch}
  IN  IF hits = {} THEN -1 ELSE (CHOOSE k \in hits : \A j \in hits : k <= j) - 1

\* String.prototype.charCodeAt for one character
charCodeAt(ch) == IndexOf(Ascii, ch) + 32

\* String.prototype.toUpperCase for one character
toUpperCaseChar(ch) ==
  IF charCodeAt(ch) >= 97 /\ charCodeAt(ch) <= 122 THEN Ascii[charCodeAt(ch) - 32 - 31] ELSE ch

toUpperCase(s) == [k \in 1..Len(s) |-> toUpperCaseChar(s[k])]

ALPHABET_NUM == <<"0", "1", "2", "3", "4", "5", "6", "7", "8", "9">>

ALPHABET_BASE36 ==
  <<"0", "1", "2", "3", "4", "5", "6", "7", "8", "9",
    "A", "B", "C", "D", "E", "F", "G", "H", "I", "J", "K", "L", "M",
    "N", "O", "P", "Q", "R", "S", "T", "U", "V", "W", "X", "Y", "Z">>

Table(charset) == IF charset = "alphanumeric" THEN ALPHABET_BASE36 ELSE ALPHABET_NUM

RECURSIVE Filter(_, _)
Filter(s, allowed) ==
  IF s = <<>> THEN <<>>
  ELSE IF IndexOf(allowed, Head(s)) # -1
    THEN <<Head(s)>> \o Filter(Tail(s), allowed)
    ELSE Filter(Tail(s), allowed)

\* mapToCharset that keeps the characters outside the charset
mapToCharset_NoFilter(s, charset) ==
  IF charset = "alphanumeric" THEN toUpperCase(s) ELSE s

mapToCharset(s, charset) ==
  LET src == IF charset = "alphanumeric" THEN toUpperCase(s) ELSE s
  IN  Filter(src, Table(charset))

\* floor(v * n) for the rng value v = k / NumRng
FloorScale(k, n) == (k * n) \div NumRng

\* randChar given the value the rng returned
randChar(k, charset) == Table(charset)[FloorScale(k, Len(Table(charset))) + 1]

(***************************************************************************)
(* Results of calls: a value or a raised error.                            *)
(***************************************************************************)
Ok(v) == [tag |-> "ok", val |-> v]
Throw(m) == [tag |-> "throw", msg |-> m]
IsOk(r) == r.tag = "ok"
IsThrow(r) == r.tag = "throw"

(***************************************************************************)
(* Checksum algorithms.                                                    *)
(***************************************************************************)
AllDigits(s) == \A k \in 1..Len(s) : IndexOf(ALPHABET_NUM, s[k]) # -1
AllBase36(s) == \A k \in 1..Len(s) : IndexOf(ALPHABET_BASE36, s[k]) # -1

\* LuhnSum without the reduction of a doubled value above 9
RECURSIVE LuhnSum_NoReduce(_, _, _)
LuhnSum_NoReduce(body, k, dbl) ==
  IF k = 0 THEN 0
  ELSE LET code == charCodeAt(body[k]) - 48
           v == IF dbl THEN code * 2 ELSE code
       IN  v + LuhnSum_NoReduce(body, k - 1, ~dbl)

\* LuhnSum that doubles no digit
RECURSIVE LuhnSum_NoDouble(_, _, _)
LuhnSum_NoDouble(body, k, dbl) ==
  IF k = 0 THEN 0
  ELSE (charCodeAt(body[k]) - 48) + LuhnSum_NoDouble(body, k - 1, ~dbl)

\* the loop of luhnChecksumDigit from index k (1-based) down to 1
RECURSIVE LuhnSum(_, _, _)
LuhnSum(body, k, dbl) ==
  IF k = 0 THEN 0
  ELSE LET code == charCodeAt(body[k]) - 48
           v == IF dbl THEN (IF code * 2 > 9 THEN code * 2 - 9 ELSE code * 2) ELSE code
       IN  v + LuhnSum(body, k - 1, ~dbl)

\* luhnChecksumDigit that returns 10 - m also when m is 0
luhnChecksumDigit_NoWrap(body) ==
  IF \E k \in 1..Len(body) : charCodeAt(body[k]) - 48 < 0 \/ charCodeAt(body[k]) - 48 > 9
    THEN Throw("Non-digit in luhnChecksumDigit")
    ELSE Ok(10 - (LuhnSum(body, Len(body), TRUE) % 10))

luhnChecksumDigit(body) ==
  IF \E k \in 1..Len(body) : charCodeAt(body[k]) - 48 < 0 \/ charCodeAt(body[k]) - 48 > 9
    THEN Throw("Non-digit in luhnChecksumDigit")
    ELSE LET m == LuhnSum(body, Len(body), TRUE) % 10
         IN  Ok(IF m = 0 THEN 0 ELSE 10 - m)

\* String(n) / Number(s) for one decimal digit
DigitString(n) == ALPHABET_NUM[n + 1]
DigitNumber(ch) == IndexOf(ALPHABET_NUM, ch)

\* luhnValidate that computes the check digit over the full string
luhnValidate_KeepLast(full) ==
  IF ~(Len(full) >= 2 /\ AllDigits(full)) THEN Ok(FALSE)
  ELSE LET check == DigitNumber(full[Len(full)])
           d == luhnChecksumDigit(full)
       IN  IF IsThrow(d) THEN d ELSE Ok(d.val = check)

luhnValidate(full) ==
  IF ~(Len(full) >= 2 /\ AllDigits(full)) THEN Ok(FALSE)
  ELSE LET body == SubSeq(full, 1, Len(full) - 1)
           check == DigitNumber(full[Len(full)])
           d == luhnChecksumDigit(body)
       IN  IF IsThrow(d) THEN d ELSE Ok(d.val = check)

\* Mod36Sum that weighs each index with its distance from the end
RECURSIVE Mod36Sum_Weighted(_)
Mod36Sum_Weighted(body) ==
  IF body = <<>> THEN 0
  ELSE IndexOf(ALPHABET_BASE36, Head(body)) * Len(body) + Mod36Sum_Weighted(Tail(body))

RECURSIVE Mod36Sum(_)
Mod36Sum(body) ==
  IF body = <<>> THEN 0 ELSE IndexOf(ALPHABET_BASE36, Head(body)) + Mod36Sum(Tail(body))

\* /^[0-9A-Z]+$/ needs at least one character
mod36CheckChar(body) ==
  IF ~(Len(body) >= 1 /\ AllBase36(body))
    THEN Throw("mod36CheckChar: non [0-9A-Z] in body")
    ELSE Ok(ALPHABET_BASE36[((36 - (Mod36Sum(body) % 36)) % 36) + 1])

\* mod36Validate that checks the shape and forgets the comparison
mod36Validate_NoCompare(full) ==
  IF ~(Len(full) >= 2 /\ AllBase36(full)) THEN Ok(FALSE)
  ELSE LET c == mod36CheckChar(SubSeq(full, 1, Len(full) - 1))
       IN  IF IsThrow(c) THEN c ELSE Ok(TRUE)

mod36Validate(full) ==
  IF ~(Len(full) >= 2 /\ AllBase36(full)) THEN Ok(FALSE)
  ELSE LET body == SubSeq(full, 1, Len(full) - 1)
           check == full[Len(full)]
           c == mod36CheckChar(body)
       IN  IF IsThrow(c) THEN c ELSE Ok(c.val = check)

(***************************************************************************)
(* Options: a record of option values and the set of option names that the   *)
(* caller supplied; a name outside "given" is undefined in the options bag.  *)
(***************************************************************************)
DEFAULT_GROUPS == 4
DEFAULT_GROUP_SIZE == 4

\* the ?? operator on an option
OrElse(o, name, dflt) == IF name \in o.given THEN o[name] ELSE dflt

\* JavaScript truthiness of an option
TruthyNumber(o, name) == name \in o.given /\ o[name] # 0
TruthyString(o, name) == name \in o.given /\ o[name] # <<>>

\* String.prototype.trim; the space is the only whitespace of the model
RECURSIVE TrimLeft(_)
TrimLeft(s) == IF s # <<>> /\ Head(s) = " " THEN TrimLeft(Tail(s)) ELSE s

RECURSIVE TrimRight(_)
TrimRight(s) ==
  IF s # <<>> /\ s[Len(s)] = " " THEN TrimRight(SubSeq(s, 1, Len(s) - 1)) ELSE s

trim(s) == TrimRight(TrimLeft(s))

(***************************************************************************)
(* Pattern compiler.  A regular expression is kept as its source text and    *)
(* interpreted by RegExpTest.                                                *)
(***************************************************************************)
MetaChars == {".", "*", "+", "?", "^", "$", "{", "}", "(", ")", "|", "[", "]", "\\"}

\* escapeRegex that leaves every character as it is
escapeRegex_Raw(ch) == <<ch>>

escapeRegex(ch) == IF ch \in MetaChars THEN <<"\\", ch>> ELSE <<ch>>

RECURSIVE PatternSource(_, _)
PatternSource(trimmed, klass) ==
  IF trimmed = <<>> THEN <<>>
  ELSE (IF Head(trimmed) = "#" THEN klass ELSE escapeRegex(Head(trimmed)))
       \o PatternSource(Tail(trimmed), klass)

buildPatternRegex(pattern, charset) ==
  LET trimmed == trim(pattern)
      klass == IF charset = "numeric" THEN <<"\\", "d">>
               ELSE <<"[", "0", "-", "9", "A", "-", "Z", "]">>
  IN  <<"^">> \o PatternSource(trimmed, klass) \o <<"$">>

\* the ranges x-y listed inside a character class
RECURSIVE ClassRanges(_)
ClassRanges(body) ==
  IF Len(body) >= 3 /\ body[2] = "-"
    THEN {<<charCodeAt(body[1]), charCodeAt(body[3])>>} \cup ClassRanges(SubSeq(body, 4, Len(body)))
  ELSE IF body # <<>>
    THEN {<<charCodeAt(body[1]), charCodeAt(body[1])>>} \cup ClassRanges(Tail(body))
  ELSE {}

Token(kind, ch, ranges) == [kind |-> kind, ch |-> ch, ranges |-> ranges]

\* the one-character matchers a regular expression source consists of
RECURSIVE RegExpTokens(_)
RegExpTokens(src) ==
  IF src = <<>> THEN <<>>
  ELSE IF Head(src) = "\\" /\ Len(src) >= 2
    THEN <<IF src[2] = "d" THEN Token("class", "", {<<48, 57>>}) ELSE Token("lit", src[2], {})>>
         \o RegExpTokens(SubSeq(src, 3, Len(src)))
  ELSE IF Head(src) = "[" /\ \E k \in 2..Len(src) : src[k] = "]"
    THEN LET close == CHOOSE k \in 2..Len(src) : src[k] = "]" /\ \A j \in 2..(k-1) : src[j] # "]"
         IN  <<Token("class", "", ClassRanges(SubSeq(src, 2, close - 1)))>>
             \o RegExpTokens(SubSeq(src, close + 1, Len(src)))
  ELSE IF Head(src) = "."
    THEN <<Token("any", "", {})>> \o RegExpTokens(Tail(src))
  ELSE <<Token("lit", Head(src), {})>> \o RegExpTokens(Tail(src))

TokenMatches(t, ch) ==
  CASE t.kind = "lit" -> ch = t.ch
    [] t.kind = "any" -> TRUE
    [] OTHER -> \E r \in t.ranges : r[1] <= charCodeAt(ch) /\ charCodeAt(ch) <= r[2]

\* RegExp.prototype.test for a source of the form ^...$
RegExpTest(src, s) ==
  LET toks == RegExpTokens(SubSeq(src, 2, Len(src) - 1))
  IN  /\ Len(toks) = Len(s)
      /\ \A k \in 1..Len(s) : TokenMatches(toks[k], s[k])

\* 0-based index of the last '#' of the trimmed pattern, -1 when there is none
lastHashIndex(pattern) ==
  LET p == trim(pattern)
      hits == {k \in 1..Len(p) : p[k] = "#"}
  IN  IF hits = {} THEN -1 ELSE (CHOOSE k \in hits : \A j \in hits : j <= k) - 1

\* BodyForCheck that also takes the characters at literal positions
RECURSIVE BodyForCheck_WithLiterals(_, _, _, _)
BodyForCheck_WithLiterals(pattern, s, hashPos, k) ==
  IF k > Len(pattern) THEN <<>>
  ELSE (IF k - 1 # hashPos THEN <<s[k]>> ELSE <<>>)
       \o BodyForCheck_WithLiterals(pattern, s, hashPos, k + 1)

\* the characters of s at the '#' positions of the pattern other than hashPos
RECURSIVE BodyForCheck(_, _, _, _)
BodyForCheck(pattern, s, hashPos, k) ==
  IF k > Len(pattern) THEN <<>>
  ELSE (IF pattern[k] = "#" /\ k - 1 # hashPos THEN <<s[k]>> ELSE <<>>)
       \o BodyForCheck(pattern, s, hashPos, k + 1)

(***************************************************************************)
(* Formatter.                                                                *)
(***************************************************************************)
Hang == [tag |-> "hang"]

\* normalizeId that returns its input
normalizeId_Identity(s) == s

normalizeId(s) == mapToCharset(s, "numeric")

RECURSIVE Join(_, _)
Join(parts, sep) ==
  IF parts = <<>> THEN <<>>
  ELSE IF Len(parts) = 1 THEN parts[1]
  ELSE parts[1] \o sep \o Join(Tail(parts), sep)

formatId(s, o) ==
  LET groups == OrElse(o, "groups", DEFAULT_GROUPS)
      groupSize == OrElse(o, "groupSize", DEFAULT_GROUP_SIZE)
      sep == OrElse(o, "separator", <<" ">>)
      charset == OrElse(o, "charset", "numeric")
      normalized == mapToCharset(s, charset)
      expected == groups * groupSize
  IN  IF Len(normalized) # expected THEN Throw("formatId: expected characters")
      ELSE IF expected > 0 /\ groupSize <= 0 THEN Hang
      ELSE IF expected <= 0 THEN Ok(<<>>)
      ELSE Ok(Join([g \in 1..(expected \div groupSize) |->
                      SubSeq(normalized, (g - 1) * groupSize + 1, g * groupSize)], sep))

(***************************************************************************)
(* Validator.                                                                *)
(***************************************************************************)
\* ValidateFixed that takes the input as it is
ValidateFixed_NoNormalize(s, o) ==
  LET groups == OrElse(o, "groups", DEFAULT_GROUPS)
      groupSize == OrElse(o, "groupSize", DEFAULT_GROUP_SIZE)
      expected == OrElse(o, "totalLength", groups * groupSize)
      charset == OrElse(o, "charset", "numeric")
      algo == OrElse(o, "algorithm", "none")
      normalized == s
  IN  IF Len(normalized) # expected THEN Ok(FALSE)
      ELSE IF algo = "luhn"
        THEN (IF ~(Len(normalized) >= 1 /\ AllDigits(normalized)) THEN Ok(FALSE)
              ELSE luhnValidate(normalized))
      ELSE IF algo = "mod36"
        THEN (IF ~(Len(normalized) >= 1 /\ AllBase36(normalized)) THEN Ok(FALSE)
              ELSE mod36Validate(normalized))
      ELSE IF charset = "numeric"
        THEN Ok(Len(normalized) >= 1 /\ AllDigits(normalized))
        ELSE Ok(Len(normalized) >= 1 /\ AllBase36(normalized))

ValidateFixed(s, o) ==
  LET groups == OrElse(o, "groups", DEFAULT_GROUPS)
      groupSize == OrElse(o, "groupSize", DEFAULT_GROUP_SIZE)
      expected == OrElse(o, "totalLength", groups * groupSize)
      charset == OrElse(o, "charset", "numeric")
      algo == OrElse(o, "algorithm", "none")
      normalized == mapToCharset(s, charset)
  IN  IF Len(normalized) # expected THEN Ok(FALSE)
      ELSE IF algo = "luhn"
        THEN (IF ~(Len(normalized) >= 1 /\ AllDigits(normalized)) THEN Ok(FALSE)
              ELSE luhnValidate(normalized))
      ELSE IF algo = "mod36"
        THEN (IF ~(Len(normalized) >= 1 /\ AllBase36(normalized)) THEN Ok(FALSE)
              ELSE mod36Validate(normalized))
      ELSE IF charset = "numeric"
        THEN Ok(Len(normalized) >= 1 /\ AllDigits(normalized))
        ELSE Ok(Len(normalized) >= 1 /\ AllBase36(normalized))

ValidatePattern(s, o, pattern) ==
  LET charset == OrElse(o, "charset", "numeric")
      algo == OrElse(o, "algorithm", "none")
      hashPos == lastHashIndex(pattern)
      checkChar == s[hashPos + 1]
      bodyForCheck == BodyForCheck(pattern, s, hashPos, 1)
  IN  IF algo = "none" THEN Ok(RegExpTest(buildPatternRegex(pattern, charset), s))
      ELSE IF hashPos = -1 THEN Ok(FALSE)
      ELSE IF ~RegExpTest(buildPatternRegex(pattern, charset), s) THEN Ok(FALSE)
      ELSE IF algo = "luhn"
        THEN (IF charset # "numeric" THEN Ok(FALSE)
              ELSE IF ~(Len(bodyForCheck) >= 1 /\ AllDigits(bodyForCheck)) THEN Ok(FALSE)
              ELSE LET d == luhnChecksumDigit(bodyForCheck)
                   IN  IF IsThrow(d) THEN d ELSE Ok(DigitString(d.val) = checkChar))
      ELSE (IF charset # "alphanumeric" THEN Ok(FALSE)
            ELSE LET c == mod36CheckChar(toUpperCase(bodyForCheck))
                 IN  IF IsThrow(c) THEN c ELSE Ok(c.val = toUpperCaseChar(checkChar)))

validateId(s, o) ==
  LET pattern == IF "pattern" \in o.given THEN trim(o.pattern) ELSE <<>>
  IN  IF pattern # <<>> THEN ValidatePattern(s, o, pattern) ELSE ValidateFixed(s, o)

(***************************************************************************)
(* The option sets and inputs the model explores.                            *)
(***************************************************************************)
SeqsUpTo(S, n) == UNION {[1..m -> S] : m \in 0..n}

PatChars == {"#", "7", ".", " "}
Patterns == SeqsUpTo(PatChars, MaxPatLen)

InChars == {"0", "I", "i", "-"}
Inputs == SeqsUpTo(InChars, MaxInLen)

FlipBase == {"0", "Z", "-"}

toLowerCaseChar(ch) ==
  IF charCodeAt(ch) >= 65 /\ charCodeAt(ch) <= 90 THEN Ascii[charCodeAt(ch) + 32 - 31] ELSE ch

FlipChars(ch) == FlipBase \cup {toLowerCaseChar(ch), toUpperCaseChar(ch)}

Charsets == {"numeric", "alphanumeric"}
Algorithms == {"none", "luhn", "mod36"}
GroupRange == 1..MaxGroups
TotalRange == (-1)..MaxTotal
Separators == {<<>>, <<"-">>, <<"0">>}

MkOptions(given, pattern, charset, algorithm, groups, groupSize, totalLength, separator) ==
  [given |-> given \cup {"charset", "algorithm"}, pattern |-> pattern, charset |-> charset,
   algorithm |-> algorithm, groups |-> groups, groupSize |-> groupSize,
   totalLength |-> totalLength, separator |-> separator]

\* pattern mode: a pattern that is not blank, the grouping options left out
PatternOptions ==
  {MkOptions({"pattern", "rng"}, p, cs, a, 0, 0, 0, <<>>) :
     p \in {q \in Patterns : trim(q) # <<>>}, cs \in Charsets, a \in Algorithms}

\* the total length fixed-length generation works with
Total(o) ==
  OrElse(o, "totalLength", OrElse(o, "groups", DEFAULT_GROUPS) * OrElse(o, "groupSize", DEFAULT_GROUP_SIZE))

\* the options of fixed-length mode that are supplied: every combination of
\* the grouping options with or without a separator, and the falsy values (a
\* blank pattern, an empty separator) next to totalLength alone
FixedGiven ==
  {gv \in SUBSET {"groups", "groupSize", "totalLength", "separator", "pattern"} :
     "pattern" \in gv => gv \cap {"groups", "groupSize"} = {}}

\* fixed-length mode: no pattern or a blank one
FixedOptions ==
  {o \in {MkOptions(gv \cup {"rng"}, IF "pattern" \in gv THEN <<" ">> ELSE <<>>, cs, a,
                    IF "groups" \in gv THEN g ELSE 0,
                    IF "groupSize" \in gv THEN gs ELSE 0,
                    IF "totalLength" \in gv THEN tl ELSE 0,
                    IF "separator" \in gv THEN sep ELSE <<>>) :
            gv \in FixedGiven, cs \in Charsets, a \in Algorithms,
            g \in GroupRange, gs \in GroupRange, tl \in TotalRange, sep \in Separators} :
     /\ Total(o) <= MaxTotal
     /\ TruthyString(o, "separator") \/ o.given \cap {"groups", "groupSize"} = {}
          \/ "separator" \notin o.given}

Options == PatternOptions \cup FixedOptions

(***************************************************************************)
(* generateId, one step per loop iteration.  Each caller c has its own       *)
(* position pc[c], loop index i[c], string under construction built[c], the  *)
(* values its rng returned so far drawn[c], and finally result[c].           *)
(***************************************************************************)
None == [tag |-> "none"]

\* PatternMode that gives way to a supplied totalLength
PatternMode_UnlessTotalLength(o) ==
  TruthyString(o, "pattern") /\ trim(o.pattern) # <<>> /\ "totalLength" \notin o.given

PatternMode(o) == TruthyString(o, "pattern") /\ trim(o.pattern) # <<>>

\* getRng that ignores the rng option
getRng_IgnoreOption(o) == "Math.random"

\* the source of randomness generateId uses
getRng(o) == IF "rng" \in o.given THEN "rng" ELSE "Math.random"

\* RngReturns with one rng state for all callers: every value handed out
\* moves the common sequence on
RngReturns_SharedState(c, v) ==
  /\ v \in 0..(NumRng - 1)
  /\ drawn' = [drawn EXCEPT ![c] = Append(@, v)]
  /\ IF getRng(opts) = "rng" THEN tape' = Append(tape, v) ELSE tape' = tape

\* caller c receives v from its rng: a seeded rng replays the common sequence
\* (tape), extending it when c is the first to get that far
RngReturns(c, v) ==
  /\ v \in 0..(NumRng - 1)
  /\ drawn' = [drawn EXCEPT ![c] = Append(@, v)]
  /\ IF getRng(opts) = "rng"
       THEN IF Len(drawn[c]) < Len(tape)
              THEN v = tape[Len(drawn[c]) + 1] /\ tape' = tape
              ELSE tape' = Append(tape, v)
       ELSE tape' = tape

Finish(c, r) ==
  /\ pc' = [pc EXCEPT ![c] = "done"]
  /\ result' = [result EXCEPT ![c] = r]

\* FixedChecks without the test of totalLength against groups * groupSize
FixedChecks_NoConflict(o) ==
  LET groups == OrElse(o, "groups", DEFAULT_GROUPS)
      groupSize == OrElse(o, "groupSize", DEFAULT_GROUP_SIZE)
      total == OrElse(o, "totalLength", groups * groupSize)
      charset == OrElse(o, "charset", "numeric")
      algo == OrElse(o, "algorithm", "none")
  IN  IF total < 2 THEN Throw("generateId: total length must be at least 2")
      ELSE IF algo = "luhn" /\ charset # "numeric"
        THEN Throw("algorithm luhn requires charset numeric")
      ELSE IF algo = "mod36" /\ charset # "alphanumeric"
        THEN Throw("algorithm mod36 requires charset alphanumeric")
      ELSE None

\* FixedChecks that lets a total length of 1 pass
FixedChecks_MinOne(o) ==
  LET groups == OrElse(o, "groups", DEFAULT_GROUPS)
      groupSize == OrElse(o, "groupSize", DEFAULT_GROUP_SIZE)
      total == OrElse(o, "totalLength", groups * groupSize)
      charset == OrElse(o, "charset", "numeric")
      algo == OrElse(o, "algorithm", "none")
  IN  IF total < 1 THEN Throw("generateId: total length must be at least 2")
      ELSE IF TruthyNumber(o, "totalLength") /\ TruthyString(o, "separator")
              /\ o.totalLength # groups * groupSize
        THEN Throw("totalLength conflicts with groups/groupSize when using separator")
      ELSE IF algo = "luhn" /\ charset # "numeric"
        THEN Throw("algorithm luhn requires charset numeric")
      ELSE IF algo = "mod36" /\ charset # "alphanumeric"
        THEN Throw("algorithm mod36 requires charset alphanumeric")
      ELSE None

\* the option checks of fixed-length mode, in the order of the code
FixedChecks(o) ==
  LET groups == OrElse(o, "groups", DEFAULT_GROUPS)
      groupSize == OrElse(o, "groupSize", DEFAULT_GROUP_SIZE)
      total == OrElse(o, "totalLength", groups * groupSize)
      charset == OrElse(o, "charset", "numeric")
      algo == OrElse(o, "algorithm", "none")
  IN  IF total < 2 THEN Throw("generateId: total length must be at least 2")
      ELSE IF TruthyNumber(o, "totalLength") /\ TruthyString(o, "separator")
              /\ o.totalLength # groups * groupSize
        THEN Throw("totalLength conflicts with groups/groupSize when using separator")
      ELSE IF algo = "luhn" /\ charset # "numeric"
        THEN Throw("algorithm luhn requires charset numeric")
      ELSE IF algo = "mod36" /\ charset # "alphanumeric"
        THEN Throw("algorithm mod36 requires charset alphanumeric")
      ELSE None

\* GenEnter without the test for a pattern that has no '#'
GenEnter_NoSlotCheck(c) ==
  /\ pc[c] = "idle"
  /\ vphase = "none"
  /\ IF PatternMode(opts)
       THEN pc' = [pc EXCEPT ![c] = "pattern"] /\ result' = result
       ELSE IF FixedChecks(opts) # None
              THEN Finish(c, FixedChecks(opts))
              ELSE pc' = [pc EXCEPT ![c] = "fixed"] /\ result' = result
  /\ UNCHANGED <<opts, tape, i, built, drawn, input, vres, vphase, orig, fpos>>

\* entry of generateId up to the first loop
GenEnter(c) ==
  /\ pc[c] = "idle"
  /\ vphase = "none"
  /\ IF PatternMode(opts)
       THEN IF OrElse(opts, "algorithm", "none") # "none" /\ lastHashIndex(trim(opts.pattern)) = -1
              THEN Finish(c, Throw("pattern requires at least one '#' when a checksum algorithm is used"))
              ELSE pc' = [pc EXCEPT ![c] = "pattern"] /\ result' = result
       ELSE IF FixedChecks(opts) # None
              THEN Finish(c, FixedChecks(opts))
              ELSE pc' = [pc EXCEPT ![c] = "fixed"] /\ result' = result
  /\ UNCHANGED <<opts, tape, i, built, drawn, input, vres, vphase, orig, fpos>>

\* one iteration of the loop that builds the pattern-shaped string
PatStep(c) ==
  LET pattern == trim(opts.pattern)
      charset == OrElse(opts, "charset", "numeric")
      algo == OrElse(opts, "algorithm", "none")
      hashPos == lastHashIndex(pattern)
      ch == pattern[i[c] + 1]
  IN  /\ pc[c] = "pattern"
      /\ i[c] < Len(pattern)
      /\ IF ch = "#" /\ ~(algo # "none" /\ i[c] = hashPos)
           THEN \E v \in 0..(NumRng - 1) :
                  /\ RngReturns(c, v)
                  /\ built' = [built EXCEPT ![c] = Append(@, randChar(v, charset))]
           ELSE /\ built' = [built EXCEPT ![c] = Append(@, ch)]
                /\ UNCHANGED <<tape, drawn>>
      /\ i' = [i EXCEPT ![c] = @ + 1]
      /\ UNCHANGED <<opts, pc, result, input, vres, vphase, orig, fpos>>

\* PatternCheckChar without the tests of the charset
PatternCheckChar_NoCharsetTest(algo, charset, bodyForCheck) ==
  IF algo = "luhn"
    THEN LET d == luhnChecksumDigit(bodyForCheck)
         IN  IF IsThrow(d) THEN d ELSE Ok(DigitString(d.val))
  ELSE IF algo = "mod36"
    THEN mod36CheckChar(bodyForCheck)
  ELSE Ok("")

\* the check character of pattern mode, or the error raised instead
PatternCheckChar(algo, charset, bodyForCheck) ==
  IF algo = "luhn"
    THEN IF charset # "numeric" THEN Throw("algorithm luhn requires charset numeric")
         ELSE LET d == luhnChecksumDigit(bodyForCheck)
              IN  IF IsThrow(d) THEN d ELSE Ok(DigitString(d.val))
  ELSE IF algo = "mod36"
    THEN IF charset # "alphanumeric" THEN Throw("algorithm mod36 requires charset alphanumeric")
         ELSE mod36CheckChar(bodyForCheck)
  ELSE Ok("")

\* Inject that takes hashPos for a 1-based index
Inject_OneBased(b, hashPos, checkChar) ==
  [k \in 1..Len(b) |-> IF b[k] = "#" /\ k = hashPos THEN checkChar ELSE b[k]]

\* the built string with the check character in place of the placeholder
Inject(b, hashPos, checkChar) ==
  [k \in 1..Len(b) |-> IF b[k] = "#" /\ k - 1 = hashPos THEN checkChar ELSE b[k]]

\* after the loop: checksum computation and injection
PatFinish(c) ==
  LET pattern == trim(opts.pattern)
      charset == OrElse(opts, "charset", "numeric")
      algo == OrElse(opts, "algorithm", "none")
      hashPos == lastHashIndex(pattern)
      bodyForCheck == BodyForCheck(pattern, built[c], hashPos, 1)
      checkChar == PatternCheckChar(algo, charset, bodyForCheck)
  IN  /\ pc[c] = "pattern"
      /\ i[c] >= Len(pattern)
      /\ IF algo = "none" THEN Finish(c, Ok(built[c]))
         ELSE IF IsThrow(checkChar) THEN Finish(c, checkChar)
         ELSE Finish(c, Ok(Inject(built[c], hashPos, checkChar.val)))
      /\ UNCHANGED <<opts, tape, i, built, drawn, input, vres, vphase, orig, fpos>>

\* BodyLen that reserves no place for the check character
BodyLen_NoReserve(o) == Total(o)

BodyLen(o) == IF OrElse(o, "algorithm", "none") # "none" THEN Total(o) - 1 ELSE Total(o)

\* FixStep that draws the first digit like the others
FixStep_AnyFirst(c) ==
  LET charset == OrElse(opts, "charset", "numeric") IN
  /\ pc[c] = "fixed"
  /\ IF charset = "numeric" THEN i[c] = 0 \/ i[c] < BodyLen(opts) ELSE i[c] < BodyLen(opts)
  /\ \E v \in 0..(NumRng - 1) :
       /\ RngReturns(c, v)
       /\ built' = [built EXCEPT ![c] =
            Append(@, IF charset = "numeric"
                        THEN DigitString(FloorScale(v, 10))
                        ELSE randChar(v, "alphanumeric"))]
  /\ i' = [i EXCEPT ![c] = @ + 1]
  /\ UNCHANGED <<opts, pc, result, input, vres, vphase, orig, fpos>>

\* one rng draw of fixed-length mode
FixStep(c) ==
  LET charset == OrElse(opts, "charset", "numeric") IN
  /\ pc[c] = "fixed"
  /\ IF charset = "numeric" THEN i[c] = 0 \/ i[c] < BodyLen(opts) ELSE i[c] < BodyLen(opts)
  /\ \E v \in 0..(NumRng - 1) :
       /\ RngReturns(c, v)
       /\ built' = [built EXCEPT ![c] =
            Append(@, IF charset = "numeric"
                        THEN (IF i[c] = 0 THEN DigitString(1 + FloorScale(v, 9))
                                          ELSE DigitString(FloorScale(v, 10)))
                        ELSE randChar(v, "alphanumeric"))]
  /\ i' = [i EXCEPT ![c] = @ + 1]
  /\ UNCHANGED <<opts, pc, result, input, vres, vphase, orig, fpos>>

\* WithChecksum without the luhn branch
WithChecksum_NoLuhn(algo, body) ==
  IF algo = "mod36"
    THEN LET m == mod36CheckChar(body)
         IN  IF IsThrow(m) THEN m ELSE Ok(Append(body, m.val))
  ELSE Ok(body)

\* body plus check character
WithChecksum(algo, body) ==
  IF algo = "luhn"
    THEN LET d == luhnChecksumDigit(body)
         IN  IF IsThrow(d) THEN d ELSE Ok(Append(body, DigitString(d.val)))
  ELSE IF algo = "mod36"
    THEN LET m == mod36CheckChar(body)
         IN  IF IsThrow(m) THEN m ELSE Ok(Append(body, m.val))
  ELSE Ok(body)

\* after the body: checksum and grouping
FixFinish(c) ==
  LET charset == OrElse(opts, "charset", "numeric")
      algo == OrElse(opts, "algorithm", "none")
      full == WithChecksum(algo, built[c])
  IN  /\ pc[c] = "fixed"
      /\ ~(IF charset = "numeric" THEN i[c] = 0 \/ i[c] < BodyLen(opts) ELSE i[c] < BodyLen(opts))
      /\ IF IsThrow(full) THEN Finish(c, full)
         ELSE IF TruthyString(opts, "separator")
           THEN Finish(c, formatId(full.val,
                  [given |-> {"groups", "groupSize", "separator", "charset"},
                   groups |-> OrElse(opts, "groups", DEFAULT_GROUPS),
                   groupSize |-> OrElse(opts, "groupSize", DEFAULT_GROUP_SIZE),
                   separator |-> opts.separator, charset |-> charset]))
           ELSE Finish(c, full)
      /\ UNCHANGED <<opts, tape, i, built, drawn, input, vres, vphase, orig, fpos>>

(***************************************************************************)
(* validateId calls: on the generated identifier, on a supplied string, and  *)
(* on an accepted string with one character replaced.                        *)
(***************************************************************************)
ValidateGenerated ==
  /\ vphase = "none"
  /\ pc[1] = "done"
  /\ IsOk(result[1])
  /\ input' = result[1].val
  /\ vres' = validateId(result[1].val, opts)
  /\ vphase' = "checked"
  /\ UNCHANGED <<opts, tape, pc, i, built, drawn, result, orig, fpos>>

\* the strings handed to validateId: the input domain and the pattern itself
SuppliedInputs(o) == Inputs \cup {trim(o.pattern)}

ValidateSupplied ==
  /\ vphase = "none"
  /\ \A c \in DOMAIN pc : pc[c] = "idle"
  /\ \E s \in SuppliedInputs(opts) :
       /\ input' = s
       /\ vres' = validateId(s, opts)
  /\ vphase' = "checked"
  /\ UNCHANGED <<opts, tape, pc, i, built, drawn, result, orig, fpos>>

Replace(s, p, ch) == [s EXCEPT ![p] = ch]

Flip ==
  /\ vphase = "checked"
  /\ IsOk(vres) /\ vres.val
  /\ \E p \in 1..Len(input) : \E ch \in FlipChars(input[p]) \ {input[p]} :
       /\ fpos' = p
       /\ input' = Replace(input, p, ch)
       /\ vres' = validateId(Replace(input, p, ch), opts)
  /\ orig' = input
  /\ vphase' = "flipped"
  /\ UNCHANGED <<opts, tape, pc, i, built, drawn, result>>

Swap(s, p, q) == [s EXCEPT ![p] = s[q], ![q] = s[p]]

\* validateId on an accepted string with two different characters exchanged
Exchange ==
  /\ vphase = "checked"
  /\ IsOk(vres) /\ vres.val
  /\ \E p \in 1..Len(input), q \in 1..Len(input) :
       /\ p < q /\ input[p] # input[q]
       /\ fpos' = p
       /\ input' = Swap(input, p, q)
       /\ vres' = validateId(Swap(input, p, q), opts)
  /\ orig' = input
  /\ vphase' = "exchanged"
  /\ UNCHANGED <<opts, tape, pc, i, built, drawn, result>>

(***************************************************************************)
(* Specification: one caller.                                                *)
(***************************************************************************)
InitCallers(C) ==
  /\ tape = <<>>
  /\ pc = [c \in C |-> "idle"]
  /\ i = [c \in C |-> 0]
  /\ built = [c \in C |-> <<>>]
  /\ drawn = [c \in C |-> <<>>]
  /\ result = [c \in C |-> None]
  /\ input = <<>>
  /\ vres = None
  /\ vphase = "none"
  /\ orig = <<>>
  /\ fpos = 0

Init ==
  /\ opts \in Options
  /\ InitCallers({1})

Next ==
  \/ \E c \in DOMAIN pc : GenEnter(c)
  \/ \E c \in DOMAIN pc : PatStep(c)
  \/ \E c \in DOMAIN pc : PatFinish(c)
  \/ \E c \in DOMAIN pc : FixStep(c)
  \/ \E c \in DOMAIN pc : FixFinish(c)
  \/ ValidateGenerated
  \/ ValidateSupplied
  \/ Flip
  \/ Exchange

Spec == Init /\ [][Next]_vars

(***************************************************************************)
(* Specification: the checksum functions called directly.                    *)
(***************************************************************************)
BodyChars == {"0", "1", "9", "A", "Z", "-"}
Bodies == SeqsUpTo(BodyChars, MaxBodyLen)

DefaultOptions == MkOptions({}, <<>>, "numeric", "none", 0, 0, 0, <<>>)

\* the vector of the test "computes classic known vector"
TestVectors == {<<"7", "9", "9", "2", "7", "3", "9", "8", "7", "1">>}

\* the last character of the strings handed to the validate functions
LastChars == {ALPHABET_BASE36[k] : k \in 1..Len(ALPHABET_BASE36)} \cup {"-"}

CallLuhnChecksumDigit ==
  /\ vphase = "none"
  /\ \E body \in Bodies \cup TestVectors :
       /\ input' = body
       /\ vres' = luhnChecksumDigit(body)
  /\ vphase' = "luhnChecksumDigit"
  /\ UNCHANGED <<opts, tape, pc, i, built, drawn, result, orig, fpos>>

CallMod36CheckChar ==
  /\ vphase = "none"
  /\ \E body \in Bodies :
       /\ input' = body
       /\ vres' = mod36CheckChar(body)
  /\ vphase' = "mod36CheckChar"
  /\ UNCHANGED <<opts, tape, pc, i, built, drawn, result, orig, fpos>>

InitPrim ==
  /\ opts = DefaultOptions
  /\ InitCallers({1})

\* every body of two digits
DigitPairs == [1..2 -> {ALPHABET_NUM[k] : k \in 1..Len(ALPHABET_NUM)}]

CallLuhnValidate ==
  /\ vphase = "none"
  /\ \E body \in Bodies \cup DigitPairs, c \in LastChars :
       /\ input' = Append(body, c)
       /\ vres' = luhnValidate(Append(body, c))
  /\ vphase' = "luhnValidate"
  /\ UNCHANGED <<opts, tape, pc, i, built, drawn, result, orig, fpos>>

CallMod36Validate ==
  /\ vphase = "none"
  /\ \E body \in Bodies, c \in LastChars :
       /\ input' = Append(body, c)
       /\ vres' = mod36Validate(Append(body, c))
  /\ vphase' = "mod36Validate"
  /\ UNCHANGED <<opts, tape, pc, i, built, drawn, result, orig, fpos>>

\* luhnValidate on an accepted string with two adjacent different characters
\* exchanged
ExchangeLuhnValidate ==
  /\ vphase = "luhnValidate"
  /\ IsOk(vres) /\ vres.val
  /\ \E p \in 1..(Len(input) - 1) :
       /\ input[p] # input[p + 1]
       /\ fpos' = p
       /\ input' = Swap(input, p, p + 1)
       /\ vres' = luhnValidate(Swap(input, p, p + 1))
  /\ orig' = input
  /\ vphase' = "luhnValidateExchanged"
  /\ UNCHANGED <<opts, tape, pc, i, built, drawn, result>>

NextPrim ==
  \/ CallLuhnChecksumDigit
  \/ CallMod36CheckChar
  \/ CallLuhnValidate
  \/ CallMod36Validate
  \/ ExchangeLuhnValidate

SpecPrim == InitPrim /\ [][NextPrim]_vars

(***************************************************************************)
(* Specification: two generateId calls with the same options; when the rng   *)
(* option is supplied both calls get the same sequence of values.            *)
(***************************************************************************)
SmallOptions ==
  {o \in Options : IF PatternMode(o) THEN Len(o.pattern) <= MaxPairLen ELSE Total(o) <= MaxPairLen}

PairOptions == SmallOptions \cup {[o EXCEPT !.given = @ \ {"rng"}] : o \in SmallOptions}

InitPair ==
  /\ opts \in PairOptions
  /\ InitCallers({1, 2})

NextPair ==
  \/ \E c \in DOMAIN pc : GenEnter(c)
  \/ \E c \in DOMAIN pc : PatStep(c)
  \/ \E c \in DOMAIN pc : PatFinish(c)
  \/ \E c \in DOMAIN pc : FixStep(c)
  \/ \E c \in DOMAIN pc : FixFinish(c)

SpecPair == InitPair /\ [][NextPair]_vars

(***************************************************************************)
(* Specification: formatId and normalizeId called directly, and generateId   *)
(* and validateId in fixed-length mode, with groups and groupSize of either  *)
(* sign and their defaults.                                                  *)
(***************************************************************************)
FmtGroupRange == (-MaxAbsGroup)..MaxAbsGroup
FmtSeparators == {<<>>, <<"-">>, <<" ">>}

FmtOptions ==
  {MkOptions(gv \cup {"rng"}, <<>>, cs, a,
             IF "groups" \in gv THEN g ELSE 0,
             IF "groupSize" \in gv THEN gs ELSE 0,
             0,
             IF "separator" \in gv THEN sep ELSE <<>>) :
     gv \in SUBSET {"groups", "groupSize", "separator"}, cs \in Charsets, a \in Algorithms,
     g \in FmtGroupRange, gs \in FmtGroupRange, sep \in FmtSeparators}

\* the inputs of formatId: short strings with a digit, a lower-case letter
\* and a separator character, and digit strings of the lengths that the
\* default of groups or of groupSize asks for
FmtChars == {"1", "a", "-"}
LongIds ==
  {[k \in 1..(DEFAULT_GROUPS * n) |-> ALPHABET_NUM[((a + m * k) % 10) + 1]] :
     n \in 1..DEFAULT_GROUP_SIZE, a \in 0..1, m \in {1, 3}}
FmtInputs == SeqsUpTo(FmtChars, MaxFmtLen) \cup LongIds

CallFormatId ==
  /\ vphase = "none"
  /\ \A c \in DOMAIN pc : pc[c] = "idle"
  /\ \E s \in FmtInputs :
       /\ input' = s
       /\ vres' = formatId(s, opts)
  /\ vphase' = "formatId"
  /\ UNCHANGED <<opts, tape, pc, i, built, drawn, result, orig, fpos>>

\* normalizeId on what formatId returned
CallNormalizeId ==
  /\ vphase = "formatId"
  /\ IsOk(vres)
  /\ orig' = input
  /\ input' = vres.val
  /\ vres' = Ok(normalizeId(vres.val))
  /\ vphase' = "normalizeId"
  /\ UNCHANGED <<opts, tape, pc, i, built, drawn, result, fpos>>

InitFmt ==
  /\ opts \in FmtOptions
  /\ InitCallers({1})

NextFmt ==
  \/ CallFormatId
  \/ CallNormalizeId
  \/ ValidateSupplied
  \/ \E c \in DOMAIN pc : Total(opts) <= MaxTotal /\ GenEnter(c)
  \/ \E c \in DOMAIN pc : FixStep(c)
  \/ \E c \in DOMAIN pc : FixFinish(c)

SpecFmt == InitFmt /\ [][NextFmt]_vars

(***************************************************************************)
(* Specification: pattern mode with the grouping options supplied as well:   *)
(* none of them, all of them with a totalLength that conflicts with          *)
(* groups * groupSize, and all of them with a total length below 2.          *)
(***************************************************************************)
GroupingNames == {"groups", "groupSize", "totalLength", "separator"}

WithGrouping(o, groups, groupSize, totalLength, separator) ==
  [o EXCEPT !.given = @ \cup GroupingNames, !.groups = groups, !.groupSize = groupSize,
            !.totalLength = totalLength, !.separator = separator]

PatGroupOptions ==
  PatternOptions
    \cup {WithGrouping(o, 1, 2, 3, <<"-">>) : o \in PatternOptions}
    \cup {WithGrouping(o, 1, 1, 1, <<"-">>) : o \in PatternOptions}

InitPat ==
  /\ opts \in PatGroupOptions
  /\ InitCallers({1})

NextPat ==
  \/ \E c \in DOMAIN pc : GenEnter(c)
  \/ \E c \in DOMAIN pc : PatStep(c)
  \/ \E c \in DOMAIN pc : PatFinish(c)
  \/ ValidateGenerated
  \/ ValidateSupplied

SpecPat == InitPat /\ [][NextPat]_vars

(***************************************************************************)
(* Vocabulary of the properties.                                             *)
(***************************************************************************)
Algo == OrElse(opts, "algorithm", "none")
Charset == OrElse(opts, "charset", "numeric")
Pattern == trim(opts.pattern)

IsMember(ch, charset) == IndexOf(Table(charset), ch) # -1

Accepts(r) == IsOk(r) /\ r.val = TRUE
Rejects(r) == IsOk(r) /\ r.val = FALSE

\* generateId of caller 1 returned and validateId was called on what it returned
GeneratedChecked == pc[1] = "done" /\ IsOk(result[1]) /\ vphase = "checked"

\* algorithm and charset go together
Compatible ==
  \/ Algo = "none"
  \/ Algo = "luhn" /\ Charset = "numeric"
  \/ Algo = "mod36" /\ Charset = "alphanumeric"

NumHashes(p) == Cardinality({k \in 1..Len(p) : p[k] = "#"})

\* 1-based position of the check character in an accepted string s
ChecksumPos(s) == IF PatternMode(opts) THEN lastHashIndex(Pattern) + 1 ELSE Len(s)

\* what one character contributes to the normalized string
Normal(ch) == mapToCharset(<<ch>>, Charset)

\* position p of s holds a character of the charset that is checksum input
\* and not the check character
BodyPos(s, p) ==
  IF PatternMode(opts)
    THEN Pattern[p] = "#" /\ p # lastHashIndex(Pattern) + 1
    ELSE IsMember(s[p], Charset) /\ \E q \in (p + 1)..Len(s) : Normal(s[q]) # <<>>

(***************************************************************************)
(* Properties.                                                               *)
(***************************************************************************)

\* C1: validateId never raises: every call returns true or false.
C1_ValidateNeverRaises ==
  vphase \in {"checked", "flipped"} => IsOk(vres) /\ vres.val \in BOOLEAN

\* C2: fixed-length round trip: without pattern and without separator, every
\* identifier generateId returns is accepted by validateId under the same options.
C2_FixedRoundTrip ==
  (GeneratedChecked /\ "pattern" \notin opts.given /\ "separator" \notin opts.given)
    => Accepts(vres)

C2_Witness ==
  /\ GeneratedChecked /\ "pattern" \notin opts.given /\ "separator" \notin opts.given
  /\ Algo = "luhn" /\ Len(input) = 3 /\ Accepts(vres)

\* C3: pattern round trip: for a pattern with at least one '#' and a compatible
\* charset/algorithm pair, generateId returns a string and validateId accepts it.
C3_PatternRoundTrip ==
  (PatternMode(opts) /\ NumHashes(Pattern) >= 1 /\ Compatible /\ pc[1] = "done")
    => /\ IsOk(result[1])
       /\ vphase = "checked" => Accepts(vres)

\* C4: both checksum functions return the first symbol of their alphabet for
\* the empty body: luhnChecksumDigit("") is 0 and mod36CheckChar("") is "0".
C4_EmptyBodyChecksum ==
  /\ (vphase = "luhnChecksumDigit" /\ input = <<>>) => (IsOk(vres) /\ vres.val = 0)
  /\ (vphase = "mod36CheckChar" /\ input = <<>>) => (IsOk(vres) /\ vres.val = "0")

\* C5 as stated: in an accepted identifier under luhn or mod36, replacing the
\* character in the checksum position by any different character makes
\* validateId return false.
C5_ChecksumFlipRejected ==
  (vphase = "flipped" /\ Algo # "none" /\ fpos = ChecksumPos(orig)) => Rejects(vres)

\* C5 amended: in an accepted identifier under luhn or mod36, replacing the
\* character in the checksum position makes validateId return false whenever,
\* in fixed-length mode, the replacement normalizes (upper-casing, dropping
\* non-members) to something else than the character it replaces; in pattern
\* mode for every different character.
C5_ChecksumFlipRejectedNormalized ==
  (/\ vphase = "flipped" /\ Algo # "none" /\ fpos = ChecksumPos(orig)
   /\ PatternMode(opts) \/ Normal(input[fpos]) # Normal(orig[fpos]))
    => Rejects(vres)

C5_Witness ==
  /\ vphase = "flipped" /\ Algo = "mod36" /\ ~PatternMode(opts) /\ fpos = Len(orig)
  /\ IsMember(input[fpos], Charset) /\ Normal(input[fpos]) # Normal(orig[fpos])
  /\ Rejects(vres)

\* C6: in pattern mode, replacing the character at a literal position of an
\* accepted identifier by a different character makes validateId return false.
C6_LiteralEnforced ==
  (vphase = "flipped" /\ PatternMode(opts) /\ Pattern[fpos] # "#") => Rejects(vres)

C6_Witness ==
  /\ vphase = "flipped" /\ PatternMode(opts) /\ Pattern[fpos] = "." /\ Algo # "none"
  /\ IsMember(input[fpos], Charset) /\ Rejects(vres)

\* C7: in an accepted identifier under luhn or mod36, replacing one body
\* character (a character of the charset that is checksum input and not the
\* check character) by a different character of the same charset makes
\* validateId return false.
C7_SingleTypoDetected ==
  (/\ vphase = "flipped" /\ Algo # "none" /\ BodyPos(orig, fpos)
   /\ IsMember(input[fpos], Charset))
    => Rejects(vres)

C7_Witness ==
  /\ vphase = "flipped" /\ Algo = "luhn" /\ BodyPos(orig, fpos)
  /\ IsMember(input[fpos], Charset) /\ Rejects(vres)

\* C8: two generateId calls with the same options and rng functions returning
\* the same sequence of values produce the same result.
C8_Determinism ==
  (1 \in DOMAIN pc /\ 2 \in DOMAIN pc /\ "rng" \in opts.given /\ pc[1] = "done" /\ pc[2] = "done")
    => result[1] = result[2]

C8_Witness ==
  /\ 2 \in DOMAIN pc /\ "rng" \in opts.given /\ pc[1] = "done" /\ pc[2] = "done"
  /\ IsOk(result[1]) /\ Len(drawn[1]) = 2 /\ Len(drawn[2]) = 2 /\ result[1] = result[2]

\* the '#' positions of p that are filled from the rng
BodySlots(p) ==
  {k \in 1..Len(p) : p[k] = "#" /\ ~(Algo # "none" /\ k = lastHashIndex(p) + 1)}

\* the number of body slots of p up to position k
SlotRank(p, k) == Cardinality({j \in BodySlots(p) : j <= k})

\* C9: a successful generateId call draws once per body character and not for
\* the check character: in pattern mode the k-th draw fills the k-th '#' that is
\* not the checksum slot; in fixed-length mode it draws total - 1 times with an
\* algorithm and total times without.
C9_RngConsumption ==
  (pc[1] = "done" /\ IsOk(result[1]))
    => IF PatternMode(opts)
         THEN /\ Len(drawn[1]) = NumHashes(Pattern) - (IF Algo # "none" THEN 1 ELSE 0)
              /\ \A k \in BodySlots(Pattern) :
                   result[1].val[k] = randChar(drawn[1][SlotRank(Pattern, k)], Charset)
         ELSE Len(drawn[1]) = Total(opts) - (IF Algo # "none" THEN 1 ELSE 0)

C9_Witness ==
  /\ pc[1] = "done" /\ IsOk(result[1]) /\ PatternMode(opts) /\ Algo = "luhn"
  /\ NumHashes(Pattern) = 3 /\ Len(drawn[1]) = 2 /\ drawn[1][1] # drawn[1][2]

\* C10: in pattern mode a returned string is as long as the trimmed pattern,
\* has the pattern's character at every literal position and a member of the
\* charset at every '#' position.
C10_PatternShape ==
  (pc[1] = "done" /\ IsOk(result[1]) /\ PatternMode(opts))
    => /\ Len(result[1].val) = Len(Pattern)
       /\ \A k \in 1..Len(Pattern) :
            IF Pattern[k] = "#" THEN IsMember(result[1].val[k], Charset)
                                ELSE result[1].val[k] = Pattern[k]

C10_Witness ==
  /\ pc[1] = "done" /\ IsOk(result[1]) /\ PatternMode(opts) /\ Algo = "luhn"
  /\ Len(Pattern) < Len(opts.pattern) /\ NumHashes(Pattern) = 1
  /\ \E k \in 1..Len(Pattern) : Pattern[k] = "7"

\* the characters of s at the '#' positions of p other than position skip
\* (1-based), in pattern order
SlotChars(p, s, skip) ==
  LET slots == {k \in 1..Len(p) : p[k] = "#" /\ k # skip}
  IN  [n \in 1..Cardinality(slots) |->
         s[CHOOSE k \in slots : Cardinality({j \in slots : j <= k}) = n]]

\* the check character of the algorithm over body, as a one-character string
CheckCharOf(algo, body) ==
  IF algo = "luhn" THEN DigitString(luhnChecksumDigit(body).val)
                   ELSE mod36CheckChar(body).val

\* C11: in pattern mode with an algorithm, the character of a generated string
\* at the last '#' of the trimmed pattern is the algorithm's check character
\* over the generated characters at all other '#' positions, in pattern order;
\* characters at literal positions are not part of that input.
C11_PatternChecksumPlacement ==
  (pc[1] = "done" /\ IsOk(result[1]) /\ PatternMode(opts) /\ Algo # "none")
    => LET body == SlotChars(Pattern, result[1].val, lastHashIndex(Pattern) + 1)
           made == IF Algo = "luhn" THEN luhnChecksumDigit(body) ELSE mod36CheckChar(body)
       IN  /\ IsOk(made)
           /\ result[1].val[lastHashIndex(Pattern) + 1] = CheckCharOf(Algo, body)

C11_Witness ==
  /\ pc[1] = "done" /\ IsOk(result[1]) /\ PatternMode(opts) /\ Algo = "luhn"
  /\ NumHashes(Pattern) = 2 /\ \E k \in 1..Len(Pattern) : Pattern[k] = "7"
  /\ result[1].val[lastHashIndex(Pattern) + 1] # "0"

\* every character of s is a member of the charset
AllMembers(s, charset) == \A k \in 1..Len(s) : IsMember(s[k], charset)

\* s without its last character
ButLast(s) == SubSeq(s, 1, Len(s) - 1)

\* the sum of f[1] .. f[n]
RECURSIVE SumTo(_, _)
SumTo(f, n) == IF n = 0 THEN 0 ELSE f[n] + SumTo(f, n - 1)

\* the sum of the alphabet indices of the characters of s
IndexSum(s) == SumTo([k \in 1..Len(s) |-> IndexOf(ALPHABET_BASE36, s[k])], Len(s))

\* C12: for a non-empty body over the algorithm's alphabet and an alphabet
\* character c, luhnValidate(body + c) and mod36Validate(body + c) return true
\* exactly when c is the check character of body (so for exactly one c), and
\* for mod36 that c makes the sum of the alphabet indices of body + c
\* divisible by 36.
C12_CheckValidateAgreement ==
  /\ (vphase = "luhnValidate" /\ Len(input) >= 2 /\ AllMembers(input, "numeric"))
       => /\ IsOk(luhnChecksumDigit(ButLast(input)))
          /\ luhnChecksumDigit(ButLast(input)).val \in 0..9
          /\ IsOk(vres)
          /\ vres.val <=> input[Len(input)] = CheckCharOf("luhn", ButLast(input))
  /\ (vphase = "mod36Validate" /\ Len(input) >= 2 /\ AllMembers(input, "alphanumeric"))
       => /\ IsOk(mod36CheckChar(ButLast(input)))
          /\ IsMember(mod36CheckChar(ButLast(input)).val, "alphanumeric")
          /\ IsOk(vres)
          /\ vres.val <=> input[Len(input)] = CheckCharOf("mod36", ButLast(input))
          /\ vres.val <=> IndexSum(input) % 36 = 0

C12_Witness ==
  /\ vphase = "mod36Validate" /\ Len(input) = 3 /\ AllMembers(input, "alphanumeric")
  /\ input[1] = "Z" /\ input[2] = "A" /\ Accepts(vres)

\* (10 - S mod 10) mod 10, where S adds the digits of body, those at the
\* positions from the right (0-indexed, within body) of the given parity
\* doubled and reduced by 9 when the doubled value exceeds 9
LuhnReference(body, parity) ==
  LET n == Len(body)
      term == [p \in 1..n |->
                 LET d == IndexOf(ALPHABET_NUM, body[n - p + 1])
                 IN  IF (p - 1) % 2 = parity
                       THEN (IF 2 * d > 9 THEN 2 * d - 9 ELSE 2 * d)
                       ELSE d]
  IN  (10 - (SumTo(term, n) % 10)) % 10

\* C13 as stated: for every digit string body, luhnChecksumDigit(body) is
\* (10 - S mod 10) mod 10 with the digits at positions 1,3,5,... from the right
\* of the body (0-indexed) doubled and reduced by 9 above 9; and
\* luhnChecksumDigit("7992739871") is 3.
C13_LuhnCheckDigit ==
  (vphase = "luhnChecksumDigit" /\ AllMembers(input, "numeric"))
    => /\ IsOk(vres)
       /\ vres.val = LuhnReference(input, 1)
       /\ input \in TestVectors => vres.val = 3

\* C13 amended: for every digit string body, luhnChecksumDigit(body) is
\* (10 - S mod 10) mod 10 with the digits at positions 0,2,4,... from the right
\* of the body (0-indexed; positions 1,3,5,... of the full number, whose
\* position 0 is the check digit) doubled and reduced by 9 above 9; and
\* luhnChecksumDigit("7992739871") is 3.
C13_LuhnCheckDigitFromRightmost ==
  (vphase = "luhnChecksumDigit" /\ AllMembers(input, "numeric"))
    => /\ IsOk(vres)
       /\ vres.val = LuhnReference(input, 0)
       /\ input \in TestVectors => vres.val = 3

C13_Witness ==
  /\ vphase = "luhnChecksumDigit" /\ input \in TestVectors
  /\ IsOk(vres) /\ vres.val = 3 /\ LuhnReference(input, 0) = 3 /\ LuhnReference(input, 1) = 4

\* C14: when an algorithm other than none is requested and the trimmed,
\* non-empty pattern has no '#', generateId raises an error without drawing
\* from the rng, and validateId returns false for every input, the pattern
\* itself included.
C14_NoSlotPolicy ==
  (PatternMode(opts) /\ Algo # "none" /\ NumHashes(Pattern) = 0)
    => /\ pc[1] \in {"idle", "done"}
       /\ drawn[1] = <<>>
       /\ pc[1] = "done" => IsThrow(result[1])
       /\ vphase # "none" => Rejects(vres)

C14_Witness ==
  /\ PatternMode(opts) /\ Algo = "luhn" /\ Charset = "numeric" /\ Pattern = <<"7">>
  /\ \/ pc[1] = "done" /\ IsThrow(result[1]) /\ drawn[1] = <<>>
     \/ vphase = "checked" /\ input = Pattern /\ Rejects(vres)

\* C15: generateId raises an error whenever algorithm is luhn and charset is
\* not numeric, or algorithm is mod36 and charset is not alphanumeric, in
\* fixed-length mode and in pattern mode alike: it never returns an identifier
\* for such a pair.
C15_IncompatiblePairRaises ==
  (~Compatible /\ pc[1] = "done") => IsThrow(result[1])

C15_Witness ==
  /\ ~Compatible /\ pc[1] = "done" /\ PatternMode(opts) /\ NumHashes(Pattern) = 2
  /\ Len(drawn[1]) = 1 /\ IsThrow(result[1])
  /\ result[1].msg = "algorithm luhn requires charset numeric"

\* groups * groupSize with the defaults 4 and 4
Grouped == OrElse(opts, "groups", DEFAULT_GROUPS) * OrElse(opts, "groupSize", DEFAULT_GROUP_SIZE)

\* generateId of caller 1 raised the error of the length/grouping conflict
RaisedConflict ==
  /\ pc[1] = "done" /\ IsThrow(result[1])
  /\ result[1].msg = "totalLength conflicts with groups/groupSize when using separator"

\* C16 as stated: in fixed-length mode generateId raises an error whenever the
\* options supply both a totalLength and a separator and totalLength differs
\* from groups*groupSize (defaults 4 and 4), and does not raise this error when
\* they are equal.
C16_LengthGroupingConflict ==
  (~PatternMode(opts) /\ pc[1] = "done" /\ {"totalLength", "separator"} \subseteq opts.given)
    => IF opts.totalLength # Grouped THEN IsThrow(result[1]) ELSE ~RaisedConflict

\* C16 amended: in fixed-length mode generateId raises an error whenever the
\* options supply both a totalLength and a non-empty separator and totalLength
\* differs from groups*groupSize (defaults 4 and 4), the conflict error when
\* the total is at least 2; it does not raise this error when they are equal,
\* nor when the separator is the empty string.
C16_LengthGroupingConflictNonEmpty ==
  (~PatternMode(opts) /\ pc[1] = "done" /\ {"totalLength", "separator"} \subseteq opts.given)
    => IF opts.totalLength # Grouped /\ opts.separator # <<>>
         THEN /\ IsThrow(result[1])
              /\ opts.totalLength >= 2 => RaisedConflict
         ELSE ~RaisedConflict

C16_Witness ==
  /\ ~PatternMode(opts) /\ {"totalLength", "separator"} \subseteq opts.given
  /\ opts.totalLength = 3 /\ opts.separator = <<"-">> /\ Grouped = 16
  /\ Compatible /\ RaisedConflict

\* generateId of caller 1 raised the error of the minimum length
RaisedMinimum ==
  /\ pc[1] = "done" /\ IsThrow(result[1])
  /\ result[1].msg = "generateId: total length must be at least 2"

\* C17: in fixed-length mode generateId raises the 'total length must be at
\* least 2' error whenever total = totalLength ?? groups*groupSize is less than
\* 2 (1, 0 and negative values included) and returns no identifier: it goes
\* from the call straight to the error without drawing from the rng.
C17_MinimumLength ==
  (~PatternMode(opts) /\ OrElse(opts, "totalLength", Grouped) < 2)
    => /\ pc[1] \in {"idle", "done"}
       /\ drawn[1] = <<>>
       /\ pc[1] = "done" => RaisedMinimum

C17_Witness ==
  /\ ~PatternMode(opts) /\ "totalLength" \in opts.given /\ opts.totalLength = 0
  /\ "separator" \in opts.given /\ RaisedMinimum

\* a call came back: it returned a value or raised an error
Returned(r) == IsOk(r) \/ IsThrow(r)

\* C18: every call of generateId, validateId and formatId terminates (returns
\* a value or raises an error) for every option set with integer groups,
\* groupSize and totalLength, zero and negative values included, and for every
\* input string: no call is left in a loop whose condition stays true.
C18_Termination ==
  /\ \A c \in DOMAIN pc : pc[c] = "done" => Returned(result[c])
  /\ vphase \in {"checked", "formatId"} => Returned(vres)

\* the separator formatId joins with
SepOf(o) == OrElse(o, "separator", <<" ">>)

\* groups chunks of groupSize characters of s with sep between them, character
\* by character (groups and groupSize at least 1)
ChunksJoined(s, groups, groupSize, sep) ==
  LET block == groupSize + Len(sep)
  IN  [p \in 1..(groups * groupSize + (groups - 1) * Len(sep)) |->
         LET q == (p - 1) \div block
             off == (p - 1) % block
         IN  IF off < groupSize THEN s[q * groupSize + off + 1] ELSE sep[off - groupSize + 1]]

\* C19: with normalized = input normalized to the charset, formatId raises an
\* error exactly when the length of normalized differs from groups*groupSize,
\* and otherwise returns the groups consecutive chunks of groupSize characters
\* of normalized joined by the separator (default a single space).
C19_FormatId ==
  vphase = "formatId"
    => LET normalized == mapToCharset(input, Charset)
           groups == OrElse(opts, "groups", DEFAULT_GROUPS)
           groupSize == OrElse(opts, "groupSize", DEFAULT_GROUP_SIZE)
       IN  IF Len(normalized) # Grouped
             THEN IsThrow(vres)
             ELSE /\ IsOk(vres)
                  /\ (groups >= 1 /\ groupSize >= 1)
                       => vres.val = ChunksJoined(normalized, groups, groupSize, SepOf(opts))

\* C20: for every numeric string id of length groups*groupSize,
\* normalizeId(formatId(id, {separator: " "})) equals id.
C20_FormatInverse ==
  (/\ vphase = "normalizeId"
   /\ opts.given \cap {"groups", "groupSize", "separator"} = {"separator"}
   /\ opts.separator = <<" ">> /\ Charset = "numeric"
   /\ AllMembers(orig, "numeric") /\ Len(orig) = Grouped)
    => vres = Ok(orig)

C20_Witness ==
  /\ vphase = "normalizeId"
  /\ opts.given \cap {"groups", "groupSize", "separator"} = {"separator"}
  /\ opts.separator = <<" ">> /\ Charset = "numeric"
  /\ AllMembers(orig, "numeric") /\ Len(orig) = 16 /\ orig[4] # orig[5]
  /\ Len(input) = 19 /\ input[5] = " " /\ vres = Ok(orig)

\* C21 as stated: for every fixed-length option set with a non-empty separator
\* that generateId accepts, the grouped string it returns is accepted by
\* validateId with the same groups, groupSize, totalLength, charset and
\* algorithm.
C21_SeparatorRoundTrip ==
  (GeneratedChecked /\ ~PatternMode(opts) /\ TruthyString(opts, "separator"))
    => Accepts(vres)

\* C21 amended: for every fixed-length option set that generateId accepts, with
\* a non-empty separator none of whose characters normalizes to a character of
\* the charset, the grouped string it returns is accepted by validateId with
\* the same groups, groupSize, totalLength, charset and algorithm.
C21_SeparatorRoundTripOutsideCharset ==
  (/\ GeneratedChecked /\ ~PatternMode(opts) /\ TruthyString(opts, "separator")
   /\ mapToCharset(opts.separator, Charset) = <<>>)
    => Accepts(vres)

C21_Witness ==
  /\ GeneratedChecked /\ ~PatternMode(opts) /\ opts.separator = <<"-">>
  /\ "separator" \in opts.given /\ Algo # "none"
  /\ \E k \in 1..Len(input) : input[k] = "-"
  /\ Accepts(vres)

IsDigit(ch) == ch \in {"0", "1", "2", "3", "4", "5", "6", "7", "8", "9"}
IsLetter(ch) == IsMember(toUpperCaseChar(ch), "alphanumeric") /\ ~IsDigit(ch)
HasLetter(s) == \E k \in 1..Len(s) : IsLetter(s[k])

\* the digits of s in their order
DigitsOf(s) == SelectSeq(s, IsDigit)

\* validateId was called in fixed-length mode with the numeric charset
NumericFixedCall ==
  vphase \in {"checked", "flipped"} /\ ~PatternMode(opts) /\ Charset = "numeric"

WithoutGrouping(o) == [o EXCEPT !.given = @ \ GroupingNames]

\* the errors of the length checks, of the conflict check and of the formatter
GroupingErrors ==
  {"generateId: total length must be at least 2",
   "totalLength conflicts with groups/groupSize when using separator",
   "formatId: expected characters"}

\* the string of pattern mode for the given rng values: the pattern with its
\* body slots filled from the values in order and the check character in the
\* last slot
ExpectedPattern(draws) ==
  LET filled == [k \in 1..Len(Pattern) |->
                   IF k \in BodySlots(Pattern)
                     THEN randChar(draws[SlotRank(Pattern, k)], Charset)
                     ELSE Pattern[k]]
      h == lastHashIndex(Pattern) + 1
  IN  IF Algo = "none" THEN filled
      ELSE [filled EXCEPT ![h] = CheckCharOf(Algo, SlotChars(Pattern, filled, h))]

\* C23: when a pattern that is non-empty after trimming is supplied, the result
\* of generateId (for the same rng values) and the result of validateId do not
\* depend on groups, groupSize, totalLength or separator: no length or conflict
\* error is raised, no grouping is applied, the string is the pattern filled
\* from the rng values, and validateId answers as it does without these options.
C23_PatternWins ==
  ("pattern" \in opts.given /\ Pattern # <<>>)
    => /\ pc[1] = "done"
            => IF IsThrow(result[1])
                 THEN result[1].msg \notin GroupingErrors
                 ELSE /\ IsOk(result[1])
                      /\ Len(drawn[1]) = Cardinality(BodySlots(Pattern))
                      /\ result[1].val = ExpectedPattern(drawn[1])
       /\ vphase = "checked" => vres = validateId(input, WithoutGrouping(opts))

C23_Witness ==
  /\ "pattern" \in opts.given /\ Pattern # <<>>
  /\ GroupingNames \subseteq opts.given /\ opts.totalLength = 1
  /\ Algo = "luhn" /\ NumHashes(Pattern) = 2 /\ Len(Pattern) = 3
  /\ GeneratedChecked /\ Accepts(vres)

\* C24: validateId returns false for every input whenever the requested
\* algorithm is incompatible with the charset (luhn with alphanumeric, mod36
\* with numeric), in pattern mode and in fixed-length mode.
C24_IncompatiblePairRejected ==
  (vphase \in {"checked", "flipped"} /\ ~Compatible) => Rejects(vres)

\* C25: for every accepted fixed-length option set without separator and every
\* rng value in [0,1), generateId returns a string of exactly
\* total = totalLength ?? groups*groupSize characters, all members of the
\* charset, and for the numeric charset its first character is never '0'.
C25_FixedShape ==
  (pc[1] = "done" /\ IsOk(result[1]) /\ ~PatternMode(opts) /\ ~TruthyString(opts, "separator"))
    => /\ Len(result[1].val) = OrElse(opts, "totalLength", Grouped)
       /\ AllMembers(result[1].val, Charset)
       /\ Charset = "numeric" => result[1].val[1] # "0"

C25_Witness ==
  /\ pc[1] = "done" /\ IsOk(result[1]) /\ ~PatternMode(opts) /\ "separator" \notin opts.given
  /\ Charset = "numeric" /\ Algo = "luhn" /\ Len(result[1].val) = 3
  /\ drawn[1] = <<0, 0>> /\ result[1].val[1] = "1" /\ result[1].val[2] = "0"

\* the options pass the checks of fixed-length generateId
PassesFixedChecks ==
  /\ ~PatternMode(opts)
  /\ OrElse(opts, "totalLength", Grouped) >= 2
  /\ ~(TruthyNumber(opts, "totalLength") /\ TruthyString(opts, "separator")
       /\ opts.totalLength # Grouped)
  /\ Compatible

\* s is groups groups of groupSize characters of the charset with sep between
\* them
IsGrouped(s, groups, groupSize, sep) ==
  LET block == groupSize + Len(sep)
  IN  /\ Len(s) = groups * groupSize + (groups - 1) * Len(sep)
      /\ \A p \in 1..Len(s) :
           IF (p - 1) % block < groupSize
             THEN IsMember(s[p], Charset)
             ELSE s[p] = sep[((p - 1) % block) - groupSize + 1]

\* C26: whenever fixed-length generateId passes its option checks with a
\* non-empty separator, the embedded formatter raises no length error and the
\* result consists of exactly groups groups of groupSize charset characters
\* joined by the separator.
C26_GroupedOutput ==
  (pc[1] = "done" /\ PassesFixedChecks /\ TruthyString(opts, "separator"))
    => /\ IsOk(result[1])
       /\ IsGrouped(result[1].val, OrElse(opts, "groups", DEFAULT_GROUPS),
                    OrElse(opts, "groupSize", DEFAULT_GROUP_SIZE), opts.separator)

\* the string of fixed-length mode for the given rng values: the body from the
\* values in order, the check character, the grouping
ExpectedFixed(draws) ==
  LET n == OrElse(opts, "totalLength", Grouped) - (IF Algo # "none" THEN 1 ELSE 0)
      body == [k \in 1..n |->
                 IF Charset = "numeric"
                   THEN (IF k = 1 THEN ALPHABET_NUM[1 + FloorScale(draws[k], 9) + 1]
                                  ELSE ALPHABET_NUM[FloorScale(draws[k], 10) + 1])
                   ELSE randChar(draws[k], "alphanumeric")]
      full == IF Algo = "none" THEN body ELSE Append(body, CheckCharOf(Algo, body))
  IN  IF TruthyString(opts, "separator")
        THEN ChunksJoined(full, OrElse(opts, "groups", DEFAULT_GROUPS),
                          OrElse(opts, "groupSize", DEFAULT_GROUP_SIZE), opts.separator)
        ELSE full

\* the number of rng values a successful call takes
ExpectedDraws ==
  IF PatternMode(opts) THEN Cardinality(BodySlots(Pattern))
  ELSE OrElse(opts, "totalLength", Grouped) - (IF Algo # "none" THEN 1 ELSE 0)

\* C27: when two generateId calls, each with its own rng state, are
\* interleaved in any order at the granularity of single rng draws, each call
\* returns what it returns when run alone: each rng hands out its sequence from
\* the start whatever the other call drew, a returned string is the one that
\* the call's own rng values give, and an error is the one the options give to
\* every call.
C27_IndependentCallers ==
  \A c \in DOMAIN pc :
    /\ "rng" \in opts.given
         => Len(drawn[c]) <= Len(tape) /\ drawn[c] = SubSeq(tape, 1, Len(drawn[c]))
    /\ Len(built[c]) = i[c]
    /\ (pc[c] = "done" /\ IsOk(result[c]))
         => /\ Len(drawn[c]) = ExpectedDraws
            /\ result[c].val = IF PatternMode(opts) THEN ExpectedPattern(drawn[c])
                                                    ELSE ExpectedFixed(drawn[c])
    /\ (pc[c] = "done" /\ ~IsOk(result[c]))
         => \A d \in DOMAIN pc : pc[d] = "done" => result[d] = result[c]

C27_Witness ==
  /\ DOMAIN pc = {1, 2} /\ "rng" \notin opts.given
  /\ pc[1] = "done" /\ pc[2] = "done" /\ IsOk(result[1]) /\ IsOk(result[2])
  /\ Len(drawn[1]) = 2 /\ drawn[1] # drawn[2] /\ result[1] # result[2]

\* the configuration errors of generateId
ConfigurationErrors ==
  {"generateId: total length must be at least 2",
   "totalLength conflicts with groups/groupSize when using separator",
   "algorithm luhn requires charset numeric",
   "algorithm mod36 requires charset alphanumeric",
   "pattern requires at least one '#' when a checksum algorithm is used"}

\* C28: every generateId call that raises a configuration error (total length
\* below 2, totalLength/separator conflict, algorithm incompatible with
\* charset, checksum requested for a pattern without '#') raises it before
\* making any rng() draw, in fixed-length mode and in pattern mode.
C28_FailFast ==
  (pc[1] = "done" /\ IsThrow(result[1]) /\ result[1].msg \in ConfigurationErrors)
    => drawn[1] = <<>>

\* the positions at which the string differs from the one before the change
DiffPos == {k \in 1..Len(input) : input[k] # orig[k]}

\* the characters of s that the check character is computed from
CheckedBody(s) ==
  IF PatternMode(opts) THEN SlotChars(Pattern, s, lastHashIndex(Pattern) + 1)
                       ELSE ButLast(mapToCharset(s, Charset))

\* C29: mod36CheckChar(body) is the same when two characters of body are
\* exchanged (hence for every permutation), so for an identifier valid under
\* mod36, exchanging any two body characters leaves validateId true.
C29_Mod36IgnoresOrder ==
  (vphase = "exchanged" /\ Algo = "mod36" /\ \A k \in DiffPos : BodyPos(orig, k))
    => /\ mod36CheckChar(CheckedBody(input)) = mod36CheckChar(CheckedBody(orig))
       /\ Accepts(vres)

C29_Witness ==
  /\ vphase = "exchanged" /\ Algo = "mod36" /\ Charset = "alphanumeric"
  /\ Cardinality(DiffPos) = 2 /\ \A k \in DiffPos : BodyPos(orig, k)
  /\ CheckedBody(input) # CheckedBody(orig) /\ Accepts(vres)

\* C30: for every digit string full with luhnValidate(full) true, exchanging
\* two adjacent different digits of full makes luhnValidate false, except when
\* the two digits are 0 and 9.
C30_LuhnTransposition ==
  (vphase = "luhnValidateExchanged" /\ {orig[fpos], orig[fpos + 1]} # {"0", "9"})
    => Rejects(vres)

C30_Witness ==
  /\ vphase = "luhnValidateExchanged" /\ Len(orig) = 4 /\ fpos = 2
  /\ {orig[fpos], orig[fpos + 1]} = {"1", "9"} /\ Rejects(vres)

====
